---- MODULE Spec2Model ----
(***************************************************************************)
(* A model of Ghvstcode/TCP-Proxy: the round-robin ServerPool with its     *)
(* health checker (pkg/loadBalancer) and the proxy Server with its         *)
(* listeners, accept loops, relays and Stop (pkg/server), both kept in     *)
(* src/pkg/loadBalancer/lb.go, and the host process of src/main.go.        *)
(***************************************************************************)
EXTENDS Integers, Sequences, FiniteSets, TLC

(***************************************************************************)
(* Bounds of the model.                                                    *)
(***************************************************************************)
\* the largest pool the pool specification draws
MaxBackends == 3
\* GetNextPeer is not called once the uint64 cursor has reached this value
MaxCursor == 6

\* the connections the server specification accepts
MaxConns == 2
\* the callers of Stop, main being the first
MaxStoppers == 2

\* the connections the relay specification follows
MaxRelays == 1
\* the bytes (chunks) in flight from a peer to the proxy, or from the proxy
\* to the client
MaxBuf == 1

\* the goroutines calling GetNextPeer on one pool at the same time
MaxCallers == 3

\* "no backend": the nil *Backend GetNextPeer returns
Nil == -1

\* the selections remembered: one more than the largest pool
Window == MaxBackends + 1

VARIABLES
    \* ---- one ServerPool and its health checker (SpecPool) ----
    bel,        \* len(s.backends)
    current,    \* ServerPool.current
    alive,      \* Backend.Alive of backends[i], i \in 0..bel-1
    reach,      \* whether a dial of backends[i].target succeeds right now
    hc,         \* HealthCheck: -1 waiting for the ticker, i: about to probe backends[i]
    poolPanic,  \* a selection ended in a run-time panic
    downAge,    \* history: 0 reachable, 1 unreachable, 2 and a health-check iteration
                \*   has started since, 3 and that iteration has completed
    picks,      \* history: the last Window selections made since a flag last changed
                \*   or a health-check iteration last confirmed a backend down, each
                \*   <<cursor before the call, index returned or Nil>>
    fresh,      \* history: picks begins with the first selection of the new pool
    probed      \* history: -1 until the health-check timer first ticks, then
                \*   the backends 0 .. probed-1 have been probed at least once

poolVars == <<bel, current, alive, reach, hc, poolPanic, downAge, picks, fresh,
              probed>>

VARIABLES
    \* ---- the proxy Server and the host process (Spec) ----
    bindFail,       \* the configured ports on which net.ListenTCP failed
    listener,       \* Server.listener: listener -> app name; a listener is named
                    \*   by its port, the nil listener of a failed bind by NilLn
    lnOpen,         \* the listeners whose socket is open
    closeTried,     \* history: the listeners Stop has called Close on
    quit,           \* Server.Quit: is C closed, and how often close(C) has run
    listenerGroup,  \* Server.listenerGroup: the WaitGroup's counter
    served,         \* Serve has run
    acc,            \* per listener, its accept loop: "none", "run", "exit"
    accApp,         \* per listener, the app name its accept loop was started with
    conns,          \* the accepted connections, in the order of their accept
    stop,           \* per caller of Stop: where it is, and the listeners its
                    \*   range over Server.listener has not visited yet
    proc,           \* the process: "running", or how it ended
    serverPool      \* Server.serverPool: app name -> [current, alive]

srvVars == <<bindFail, listener, lnOpen, closeTried, quit, listenerGroup, served,
             acc, accApp, conns, stop, proc, serverPool>>

VARIABLES
    \* ---- the relays of proxyConnection, one per connection (SpecRelay) ----
    relay   \* per connection: where proxyConnection (m) and its copying
            \*   goroutine (g) are, the two peers, the bytes in flight, and
            \*   which connections the proxy has closed

relayVars == <<relay>>

VARIABLES
    \* ---- GetNextPeer step by step, for concurrent callers (SpecRace) ----
    sel     \* per caller: where it is in GetNextPeer, its locals next and i,
            \*   the result, and history: the cursor its Add found (pre),
            \*   whether all backends were dead at some instant of the call
            \*   (allDead), the backends alive at every instant of it (steady)

raceVars == <<sel>>

vars == <<poolVars, srvVars, relayVars, raceVars>>

\* what the actions of one specification leave alone
notPool == <<srvVars, relayVars, raceVars>>
notSrv == <<poolVars, relayVars, raceVars>>
notRelay == <<poolVars, srvVars, raceVars>>
notRace == <<srvVars, relayVars>>

Idx == 0 .. (bel - 1)

\* the nil *net.TCPListener that net.ListenTCP returns with an error (lb.go:202)
NilLn == 0

\* the pool specification leaves the server unbuilt
SrvIdle ==
    /\ bindFail = {}
    /\ listener = <<>>
    /\ lnOpen = {}
    /\ closeTried = {}
    /\ quit = [closed |-> FALSE, closes |-> 0]
    /\ listenerGroup = 0
    /\ served = FALSE
    /\ acc = <<>>
    /\ accApp = <<>>
    /\ conns = <<>>
    /\ stop = <<>>
    /\ proc = "running"
    /\ serverPool = <<>>

\* the server specification keeps its pools in serverPool
PoolIdle ==
    /\ bel = 0
    /\ current = 0
    /\ alive = <<>>
    /\ reach = <<>>
    /\ hc = -1
    /\ poolPanic = FALSE
    /\ downAge = <<>>
    /\ picks = <<>>
    /\ fresh = TRUE
    /\ probed = -1

(***************************************************************************)
(* ServerPool: NextIndex and GetNextPeer as pure functions of the cursor   *)
(* and the flags. n > 0 here; the callers guard the empty pool.            *)
(***************************************************************************)
\* the mutant returns the index before the increment
NextIndexStale(cur, n) == cur % n

\* lb.go:78-81. atomic.AddUint64 returns the NEW value; the result is new % bel
NextIndex(cur, n) == (cur + 1) % n

\* the mutant reads no flag: every backend counts as alive
IsAliveAlways(al, idx) == TRUE

\* lb.go:108-113
IsAlive(al, idx) == al[idx]

\* the mutant's cycle is one backend short
ScanEndShort(n, next) == n + next - 1

\* lb.go:86: l, where the scan that starts from next ends (a full cycle)
ScanEnd(n, next) == n + next

\* lb.go:87-96, the loop: the first i in from..l-1 whose backend is alive, or Nil
RECURSIVE ScanFrom(_, _, _, _)
ScanFrom(al, n, i, l) ==
    IF i >= l THEN Nil
    ELSE IF IsAlive(al, i % n) THEN i
    ELSE ScanFrom(al, n, i + 1, l)

\* the mutant loses the increment: the cursor stays where it was
CursorAfterStuck(cur, n, next, i) == cur

\* the mutant never stores the index found by the skip path
CursorAfterNoStore(cur, n, next, i) == cur + 1

\* lb.go:85 and 91-93: the cursor after a selection that ended at loop index i
CursorAfter(cur, n, next, i) ==
    IF i # Nil /\ i # next THEN i % n ELSE cur + 1

\* lb.go:83-98
GetNextPeer(cur, al, n) ==
    LET next == NextIndex(cur, n)
        i    == ScanFrom(al, n, next, ScanEnd(n, next))
    IN  [peer    |-> IF i = Nil THEN Nil ELSE i % n,
         current |-> CursorAfter(cur, n, next, i)]

(***************************************************************************)
(* SpecPool: one pool, selections one at a time, the health checker        *)
(* probing one backend per step, and targets going down and up.            *)
(***************************************************************************)
\* the mutant's backends start as not alive
NewBackendDown(i) == FALSE

\* lb.go:34-40: the Alive field of the new backend for targets[i]
NewBackend(i) == TRUE

\* lb.go:16-26 and 34-40: every backend starts alive, the cursor at 0
PoolInit ==
    /\ bel \in 0 .. MaxBackends
    /\ current = 0
    /\ alive = [i \in 0 .. (bel - 1) |-> NewBackend(i)]
    /\ reach \in [0 .. (bel - 1) -> BOOLEAN]
    /\ hc = -1
    /\ poolPanic = FALSE
    /\ downAge = [i \in 0 .. (bel - 1) |-> IF reach[i] THEN 0 ELSE 1]
    /\ picks = <<>>
    /\ fresh = TRUE
    /\ probed = -1
    /\ SrvIdle
    /\ relay = <<>>
    /\ sel = <<>>

Remember(p) ==
    IF Len(picks) < Window
    THEN /\ picks' = Append(picks, p)
         /\ fresh' = fresh
    ELSE /\ picks' = Append(Tail(picks), p)
         /\ fresh' = FALSE

\* one call of GetNextPeer (lb.go:83-98), with nothing else running meanwhile
Select ==
    /\ ~poolPanic
    /\ bel > 0
    /\ current < MaxCursor
    /\ LET r == GetNextPeer(current, alive, bel)
       IN  /\ current' = r.current
           /\ Remember(<<current, r.peer>>)
    /\ UNCHANGED <<probed, bel, alive, reach, hc, poolPanic, downAge>>
    /\ UNCHANGED notPool

\* lb.go:79-80 on an empty pool: the cursor is incremented, then the modulo by
\* uint64(0) panics (integer divide by zero)
SelectEmpty ==
    /\ ~poolPanic
    /\ bel = 0
    /\ current' = current + 1
    /\ poolPanic' = TRUE
    /\ UNCHANGED <<probed, bel, alive, reach, hc, downAge, picks, fresh>>
    /\ UNCHANGED notPool

\* lb.go:70: the ticker fires and healthCheckItr begins
HealthTick ==
    /\ ~poolPanic
    /\ hc = -1
    /\ hc' = 0
    /\ downAge' = [i \in Idx |-> IF downAge[i] = 1 THEN 2 ELSE downAge[i]]
    /\ probed' = IF probed = -1 THEN 0 ELSE probed
    /\ UNCHANGED <<bel, current, alive, reach, poolPanic, picks, fresh>>
    /\ UNCHANGED notPool

\* the mutant ignores the dial error
isBackendAliveOptimistic(i) == TRUE

\* lb.go:42-51: the probe succeeds iff the target accepts a connection
isBackendAlive(i) == reach[i]

\* lb.go:101-105
SetAlive(i, v) == alive' = [alive EXCEPT ![i] = v]

\* lb.go:54-63: one turn of the loop of healthCheckItr
HealthProbe ==
    /\ ~poolPanic
    /\ hc \in Idx
    /\ SetAlive(hc, isBackendAlive(hc))
    /\ hc' = hc + 1
    /\ probed' = IF hc >= probed THEN hc + 1 ELSE probed
    /\ picks' = IF alive' = alive THEN picks ELSE <<>>
    /\ fresh' = (fresh /\ alive' = alive)
    /\ UNCHANGED <<bel, current, reach, poolPanic, downAge>>
    /\ UNCHANGED notPool

\* lb.go:64 and 73: healthCheckItr returns, HealthCheck waits for the next tick
HealthDone ==
    /\ ~poolPanic
    /\ hc = bel
    /\ hc' = -1
    /\ downAge' = [i \in Idx |-> IF downAge[i] = 2 THEN 3 ELSE downAge[i]]
    /\ picks' = IF downAge' = downAge THEN picks ELSE <<>>
    /\ fresh' = (fresh /\ downAge' = downAge)
    /\ UNCHANGED <<probed, bel, current, alive, reach, poolPanic>>
    /\ UNCHANGED notPool

\* the environment: a target stops accepting connections
TargetDown ==
    \E i \in Idx :
        /\ reach[i]
        /\ reach' = [reach EXCEPT ![i] = FALSE]
        /\ downAge' = [downAge EXCEPT ![i] = 1]
        /\ UNCHANGED <<probed, bel, current, alive, hc, poolPanic, picks, fresh>>
        /\ UNCHANGED notPool

\* the environment: a target accepts connections again
TargetUp ==
    \E i \in Idx :
        /\ ~reach[i]
        /\ reach' = [reach EXCEPT ![i] = TRUE]
        /\ downAge' = [downAge EXCEPT ![i] = 0]
        /\ UNCHANGED <<probed, bel, current, alive, hc, poolPanic, picks, fresh>>
        /\ UNCHANGED notPool

PoolNext ==
    \/ Select
    \/ SelectEmpty
    \/ HealthTick
    \/ HealthProbe
    \/ HealthDone
    \/ TargetDown
    \/ TargetUp

SpecPool == PoolInit /\ [][PoolNext]_vars

(***************************************************************************)
(* GetNextPeer one atomic operation or one flag read per step.             *)
(* SpecRace: MaxCallers goroutines call it at once on one pool whose flags *)
(* stay as the health checker last left them.                              *)
(* SpecStale: one goroutine calls it while the health checker rewrites the *)
(* flags one backend at a time.                                            *)
(***************************************************************************)
Callers == 1 .. MaxCallers

IdleCall ==
    [pc |-> "idle", pre |-> 0, next |-> 0, i |-> 0, ret |-> Nil,
     allDead |-> FALSE, steady |-> {}]

\* lb.go:16-40 and 53-64: a pool of 1..MaxBackends backends, cursor 0, no
\* selection made yet, the flags as earlier health checks left them
RaceInit ==
    /\ bel \in 1 .. MaxBackends
    /\ current = 0
    /\ alive \in [0 .. (bel - 1) -> BOOLEAN]
    /\ reach = alive
    /\ hc = -1
    /\ poolPanic = FALSE
    /\ downAge = [i \in 0 .. (bel - 1) |-> 0]
    /\ picks = <<>>
    /\ fresh = TRUE
    /\ probed = -1
    /\ SrvIdle
    /\ relay = <<>>
    /\ sel = [a \in Callers |-> IdleCall]

\* lb.go:16-40: a new pool of 1..MaxBackends backends, all alive, cursor 0,
\* and one caller
StaleInit ==
    /\ bel \in 1 .. MaxBackends
    /\ current = 0
    /\ alive = [i \in 0 .. (bel - 1) |-> NewBackend(i)]
    /\ reach = alive
    /\ hc = -1
    /\ poolPanic = FALSE
    /\ downAge = [i \in 0 .. (bel - 1) |-> 0]
    /\ picks = <<>>
    /\ fresh = TRUE
    /\ probed = -1
    /\ SrvIdle
    /\ relay = <<>>
    /\ sel = [a \in {1} |-> IdleCall]

\* lb.go:85, 78-81: the call begins with NextIndex: one atomic add
RaceAdd(a) ==
    /\ sel[a].pc = "idle"
    /\ current < MaxCursor
    /\ current' = current + 1
    /\ sel' = [sel EXCEPT ![a] =
                 [pc |-> "scan", pre |-> current, next |-> NextIndex(current, bel),
                  i |-> NextIndex(current, bel), ret |-> Nil,
                  allDead |-> \A j \in Idx : ~alive[j],
                  steady |-> {j \in Idx : alive[j]}]]
    /\ UNCHANGED <<probed, bel, alive, reach, hc, poolPanic, downAge, picks, fresh>>
    /\ UNCHANGED notRace

\* lb.go:87-97: the loop condition and one turn of the loop, in which IsAlive
\* of backends[i % len] is read
RaceScan(a) ==
    /\ sel[a].pc = "scan"
    /\ LET l   == ScanEnd(bel, sel[a].next)
           idx == sel[a].i % bel
       IN  sel' = [sel EXCEPT ![a] =
                     IF sel[a].i >= l THEN [@ EXCEPT !.pc = "ret", !.ret = Nil]
                     ELSE IF IsAlive(alive, idx)
                     THEN IF sel[a].i # sel[a].next
                          THEN [@ EXCEPT !.pc = "store"]
                          ELSE [@ EXCEPT !.pc = "ret", !.ret = idx]
                     ELSE IF sel[a].i + 1 < l
                          THEN [@ EXCEPT !.i = @ + 1]
                          ELSE [@ EXCEPT !.pc = "ret", !.ret = Nil]]
    /\ UNCHANGED poolVars
    /\ UNCHANGED notRace

\* lb.go:91-94: atomic.StoreUint64(&s.current, idx), then return
RaceStore(a) ==
    /\ sel[a].pc = "store"
    /\ current' = sel[a].i % bel
    /\ sel' = [sel EXCEPT ![a].pc = "ret", ![a].ret = sel[a].i % bel]
    /\ UNCHANGED <<probed, bel, alive, reach, hc, poolPanic, downAge, picks, fresh>>
    /\ UNCHANGED notRace

\* lb.go:94, 97: the caller has the result
RaceReturn(a) ==
    /\ sel[a].pc = "ret"
    /\ sel' = [sel EXCEPT ![a] = IdleCall]
    /\ UNCHANGED poolVars
    /\ UNCHANGED notRace

\* lb.go:70-72: the ticker fires and healthCheckItr begins
RaceTick ==
    /\ hc = -1
    /\ hc' = 0
    /\ UNCHANGED <<probed, bel, current, alive, reach, poolPanic, downAge, picks, fresh>>
    /\ UNCHANGED <<notRace, sel>>

\* lb.go:54-63: one turn of healthCheckItr: the probe of backends[hc] ends with
\* v and SetAlive writes it; after the last backend the iteration is over
RaceProbe(v) ==
    /\ hc \in Idx
    /\ SetAlive(hc, v)
    /\ hc' = IF hc + 1 = bel THEN -1 ELSE hc + 1
    /\ sel' = [a \in DOMAIN sel |->
                 IF sel[a].pc \in {"scan", "store"}
                 THEN [sel[a] EXCEPT
                         !.allDead = @ \/ \A j \in Idx : ~alive'[j],
                         !.steady = {j \in @ : alive'[j]}]
                 ELSE sel[a]]
    /\ UNCHANGED <<probed, bel, current, reach, poolPanic, downAge, picks, fresh>>
    /\ UNCHANGED notRace

RaceNext ==
    \/ \E a \in DOMAIN sel : RaceAdd(a)
    \/ \E a \in DOMAIN sel : RaceScan(a)
    \/ \E a \in DOMAIN sel : RaceStore(a)
    \/ \E a \in DOMAIN sel : RaceReturn(a)

SpecRace == RaceInit /\ [][RaceNext]_vars

StaleNext ==
    \/ \E a \in DOMAIN sel : RaceAdd(a)
    \/ \E a \in DOMAIN sel : RaceScan(a)
    \/ \E a \in DOMAIN sel : RaceStore(a)
    \/ \E a \in DOMAIN sel : RaceReturn(a)
    \/ RaceTick
    \/ \E v \in BOOLEAN : RaceProbe(v)

SpecStale == StaleInit /\ [][StaleNext]_vars

(***************************************************************************)
(* The proxy Server: NewServer, Serve, the accept loops, the connection    *)
(* handlers, Stop, and main.                                               *)
(***************************************************************************)
\* the configuration main hands to NewServer (main.go:13-36, lb.go:148-155):
\* two applications with distinct names, disjoint ports and their own targets
Apps ==
    << [Name |-> "A", Ports |-> <<1>>, Targets |-> <<"a1", "a2">>],
       [Name |-> "B", Ports |-> <<2>>, Targets |-> <<"b1">>] >>

Range(f) == {f[x] : x \in DOMAIN f}
AppNames == {Apps[i].Name : i \in DOMAIN Apps}
App(name) == CHOOSE a \in Range(Apps) : a.Name = name
AllPorts == UNION {Range(Apps[i].Ports) : i \in DOMAIN Apps}
\* the application whose configuration lists port p
PortOwner(p) == CHOOSE a \in Range(Apps) : p \in Range(a.Ports)

\* lb.go:196-209: the ports of one app. A failed ListenTCP is logged and the
\* nil listener is put in the map all the same.
RECURSIVE BindPorts(_, _, _, _)
BindPorts(m, name, ports, failed) ==
    IF ports = <<>> THEN m
    ELSE LET l  == IF Head(ports) \in failed THEN NilLn ELSE Head(ports)
             m2 == [k \in DOMAIN m \cup {l} |-> IF k = l THEN name ELSE m[k]]
         IN  BindPorts(m2, name, Tail(ports), failed)

\* lb.go:194-217: the loop over the apps
RECURSIVE BindApps(_, _, _)
BindApps(m, as, failed) ==
    IF as = <<>> THEN m
    ELSE BindApps(BindPorts(m, Head(as).Name, Head(as).Ports, failed), Tail(as), failed)

\* lb.go:16-26, 212-213: one pool per app, cursor 0, every backend alive
NewServerPool(targets) ==
    [current |-> 0, alive |-> [i \in 0 .. (Len(targets) - 1) |-> NewBackend(i)]]

\* lb.go:183-224: the state NewServer leaves, for every outcome of the binds,
\* with the callers of Stop to come
NewServer(callers) ==
    /\ bindFail \in SUBSET AllPorts
    /\ listener = BindApps(<<>>, Apps, bindFail)
    /\ lnOpen = AllPorts \ bindFail
    /\ closeTried = {}
    /\ quit = [closed |-> FALSE, closes |-> 0]
    /\ listenerGroup = 1
    /\ served = FALSE
    /\ acc = [k \in DOMAIN listener |-> "none"]
    /\ accApp = [k \in DOMAIN listener |-> ""]
    /\ conns = <<>>
    /\ stop = [s \in 1 .. callers |-> [pc |-> "idle", left |-> {}]]
    /\ proc = "running"
    /\ serverPool = [n \in AppNames |-> NewServerPool(App(n).Targets)]
    /\ PoolIdle
    /\ relay = <<>>
    /\ sel = <<>>

\* main.go:36-43: the process as main runs it, main being the one caller of Stop
Init == NewServer(1)

\* the server used as a library: Stop has MaxStoppers callers, main the first
StopInit == NewServer(MaxStoppers)

Running == proc = "running"

\* the mutant's Wait returns as soon as any Done has run
WakeOnDone(cs, wg) ==
    [i \in DOMAIN cs |->
        IF cs[i].pc = "wait" THEN [cs[i] EXCEPT !.pc = "spawn"] ELSE cs[i]]

\* sync.WaitGroup: when the counter reaches zero every Wait returns. The only
\* waiters are the handlers blocked at lb.go:275, which then loop (lb.go:268).
Wake(cs, wg) ==
    IF wg = 0
    THEN [i \in DOMAIN cs |->
            IF cs[i].pc = "wait" THEN [cs[i] EXCEPT !.pc = "spawn"] ELSE cs[i]]
    ELSE cs

\* the mutant shares one loop variable among the goroutines: each sees the
\* value of the last iteration
ServeValShared(k) ==
    listener[CHOOSE j \in DOMAIN listener : \A i \in DOMAIN listener : i <= j]

\* lb.go:231-236: val := val, the app name the goroutine of listener k gets
ServeVal(k) == listener[k]

\* lb.go:227-243: one accept loop per entry of the listener map
Serve ==
    /\ Running
    /\ ~served
    /\ served' = TRUE
    /\ acc' = [k \in DOMAIN listener |-> "run"]
    /\ accApp' = [k \in DOMAIN listener |-> ServeVal(k)]
    /\ listenerGroup' = listenerGroup + Cardinality(DOMAIN listener) - 1
    /\ UNCHANGED <<bindFail, listener, lnOpen, closeTried, quit, conns, stop, proc,
                   serverPool>>
    /\ UNCHANGED notSrv

\* lb.go:248, 256-261: AcceptTCP returns a connection
AcceptConn(k) ==
    /\ Running
    /\ acc[k] = "run"
    /\ k \in lnOpen
    /\ Len(conns) < MaxConns
    /\ conns' = Append(conns, [port |-> k, app |-> accApp[k], pc |-> "spawn",
                               runs |-> 0, target |-> "", dialed |-> FALSE,
                               early |-> FALSE])
    /\ listenerGroup' = listenerGroup + 1
    /\ UNCHANGED <<bindFail, listener, lnOpen, closeTried, quit, served, acc, accApp,
                   stop, proc, serverPool>>
    /\ UNCHANGED notSrv

\* lb.go:248-255: AcceptTCP returns an error: the listener is closed or nil, or
\* the accept failed for a reason of its own. On the nil listener the call
\* either panics on the nil dereference or returns EINVAL.
AcceptError(k) ==
    /\ Running
    /\ acc[k] = "run"
    /\ \/ /\ k = NilLn
          /\ proc' = "panic_nil_listener"
          /\ UNCHANGED <<acc, listenerGroup, conns>>
       \/ /\ quit.closed
          /\ acc' = [acc EXCEPT ![k] = "exit"]
          /\ listenerGroup' = listenerGroup - 1
          /\ conns' = Wake(conns, listenerGroup')
          /\ UNCHANGED proc
       \/ /\ ~quit.closed
          /\ UNCHANGED <<acc, listenerGroup, conns, proc>>
    /\ UNCHANGED <<bindFail, listener, lnOpen, closeTried, quit, served, accApp, stop,
                   serverPool>>
    /\ UNCHANGED notSrv

\* lb.go:268-273: the handler starts proxyConnection and goes to wait
HandleSpawn(c) ==
    /\ Running
    /\ conns[c].pc = "spawn"
    /\ conns' = [conns EXCEPT ![c].pc = "proxy", ![c].runs = @ + 1]
    /\ listenerGroup' = listenerGroup + 1
    /\ UNCHANGED <<bindFail, listener, lnOpen, closeTried, quit, served, acc, accApp,
                   stop, proc, serverPool>>
    /\ UNCHANGED notSrv

NoStopYet == \A s \in DOMAIN stop : stop[s].pc = "idle"

\* lb.go:280, 286-289: remoteAddr stays "" when GetNextPeer returned nil
remoteAddr(tg, peer) == IF peer = Nil THEN "" ELSE tg[peer + 1]

\* the mutant converts every address, the empty one too
tcpAddrToSocketAddrLenient(addr) == TRUE

\* lb.go:352-359, 399-419: does DialTCP get past tcpAddrToSocketAddr, to
\* syscall.Socket? net.ResolveTCPAddr("tcp", "") returns an address without
\* IP; To4() is nil, and in the default branch strconv.ParseUint of the empty
\* Zone fails. The address of a configured target is converted.
tcpAddrToSocketAddr(addr) == addr # ""

\* lb.go:279-298: the pool of the app, GetNextPeer, DialTCP. The dial of an
\* address tcpAddrToSocketAddr converts succeeds or fails; any other fails
\* before a socket exists. A failed dial closes conn and proxyConnection
\* returns.
ProxyStart(c) ==
    /\ Running
    /\ conns[c].pc = "proxy"
    /\ LET name == conns[c].app
           tg   == App(name).Targets
           sp   == serverPool[name]
       IN  IF Len(tg) = 0
           THEN /\ proc' = "panic_empty_pool"
                /\ serverPool' = [serverPool EXCEPT ![name].current = @ + 1]
                /\ UNCHANGED <<conns, listenerGroup>>
           ELSE LET r == GetNextPeer(sp.current, sp.alive, Len(tg))
                    addr == remoteAddr(tg, r.peer)
                IN  /\ serverPool' = [serverPool EXCEPT ![name].current = r.current]
                    /\ UNCHANGED proc
                    /\ \/ /\ tcpAddrToSocketAddr(addr)
                          /\ conns' = [conns EXCEPT ![c].pc = "relay",
                                                    ![c].target = addr,
                                                    ![c].dialed = TRUE,
                                                    ![c].early = NoStopYet]
                          /\ UNCHANGED listenerGroup
                       \/ /\ listenerGroup' = listenerGroup - 1
                          /\ conns' = Wake([conns EXCEPT ![c].pc = "wait",
                                                         ![c].target = addr],
                                           listenerGroup')
    /\ UNCHANGED <<bindFail, listener, lnOpen, closeTried, quit, served, acc, accApp,
                   stop>>
    /\ UNCHANGED notSrv

\* lb.go:301-306, 272: io.Copy(conn, conn2) returns, both connections are
\* closed, proxyConnection returns
RelayEnd(c) ==
    /\ Running
    /\ conns[c].pc = "relay"
    /\ listenerGroup' = listenerGroup - 1
    /\ conns' = Wake([conns EXCEPT ![c].pc = "wait", ![c].early = FALSE], listenerGroup')
    /\ UNCHANGED <<bindFail, listener, lnOpen, closeTried, quit, served, acc, accApp,
                   stop, proc, serverPool>>
    /\ UNCHANGED notSrv

\* lb.go:54-63 within the server: a probe of backend i of app n ends with v
HealthSet(n, i, v) ==
    /\ Running
    /\ i \in DOMAIN serverPool[n].alive
    /\ serverPool' = [serverPool EXCEPT ![n].alive[i] = v]
    /\ UNCHANGED <<bindFail, listener, lnOpen, closeTried, quit, listenerGroup,
                   served, acc, accApp, conns, stop, proc>>
    /\ UNCHANGED notSrv

\* the mutant never closes the signal
SafeCloseNoop(q) == q

\* lb.go:158-162: sync.Once lets close(C) run once
SafeClose(q) ==
    IF q.closed THEN q ELSE [closed |-> TRUE, closes |-> q.closes + 1]

\* lb.go:312-314: Stop is called: the signal is closed, the range begins
StopBegin(s) ==
    /\ Running
    /\ stop[s].pc = "idle"
    /\ quit' = SafeClose(quit)
    /\ stop' = [stop EXCEPT ![s] = [pc |-> "closing", left |-> DOMAIN listener]]
    /\ UNCHANGED <<bindFail, listener, lnOpen, closeTried, listenerGroup, served, acc,
                   accApp, conns, proc, serverPool>>
    /\ UNCHANGED notSrv

\* lb.go:314-319: one turn of the range: Close, and log.Fatal on its error.
\* Close on the nil listener panics on the dereference or returns EINVAL;
\* Close on a closed listener returns an error.
StopClose(s, k) ==
    /\ Running
    /\ stop[s].pc = "closing"
    /\ k \in stop[s].left
    /\ closeTried' = closeTried \cup {k}
    /\ \/ /\ k = NilLn
          /\ proc' = "panic_nil_listener"
          /\ UNCHANGED <<lnOpen, stop>>
       \/ /\ k \notin lnOpen
          /\ proc' = IF k = NilLn THEN "fatal_nil_listener" ELSE "fatal_closed_listener"
          /\ UNCHANGED <<lnOpen, stop>>
       \/ /\ k \in lnOpen
          /\ lnOpen' = lnOpen \ {k}
          /\ stop' = [stop EXCEPT ![s] =
                        [pc   |-> IF @.left = {k} THEN "done" ELSE "closing",
                         left |-> @.left \ {k}]]
          /\ UNCHANGED proc
    /\ UNCHANGED <<bindFail, listener, quit, listenerGroup, served, acc, accApp, conns,
                   serverPool>>
    /\ UNCHANGED notSrv

\* main.go:43-45: caller 1 of Stop is main, which returns when Stop has
\* returned, and the process exits
MainExit ==
    /\ Running
    /\ stop[1].pc = "done"
    /\ proc' = "exited"
    /\ UNCHANGED <<bindFail, listener, lnOpen, closeTried, quit, listenerGroup,
                   served, acc, accApp, conns, stop, serverPool>>
    /\ UNCHANGED notSrv

Next ==
    \/ Serve
    \/ \E k \in DOMAIN listener : AcceptConn(k)
    \/ \E k \in DOMAIN listener : AcceptError(k)
    \/ \E c \in DOMAIN conns : HandleSpawn(c)
    \/ \E c \in DOMAIN conns : ProxyStart(c)
    \/ \E c \in DOMAIN conns : RelayEnd(c)
    \/ \E n \in AppNames, i \in 0 .. 1, v \in BOOLEAN : HealthSet(n, i, v)
    \/ \E s \in DOMAIN stop : StopBegin(s)
    \/ \E s \in DOMAIN stop, k \in DOMAIN listener : StopClose(s, k)
    \/ MainExit

Spec == Init /\ [][Next]_vars

SpecStop == StopInit /\ [][Next]_vars

(***************************************************************************)
(* SpecRelay: proxyConnection from its dial on, for MaxRelays connections. *)
(* m is proxyConnection itself, which runs io.Copy(conn, conn2) and then   *)
(* the deferred closes; g is the goroutine running io.Copy(conn2, conn).   *)
(***************************************************************************)
Relays == 1 .. MaxRelays

\* lb.go:292-294: conn is accepted, its close is deferred, the dial is next
RelayInit ==
    /\ relay = [c \in Relays |->
                  [m |-> "dial", g |-> "none", client |-> "open", backend |-> "open",
                   inC |-> 0, inB |-> 0, outC |-> 0,
                   connClosed |-> FALSE, conn2Closed |-> FALSE,
                   dialed |-> FALSE, why |-> ""]]
    /\ PoolIdle
    /\ SrvIdle
    /\ sel = <<>>

\* lb.go:294-303: DialTCP. On an error conn is closed and proxyConnection
\* returns; else the copying goroutine is started and io.Copy(conn, conn2) begins.
Dial(c, ok) ==
    /\ relay[c].m = "dial"
    /\ relay' = [relay EXCEPT ![c] =
                   IF ok
                   THEN [@ EXCEPT !.m = "read2", !.g = "read1", !.dialed = TRUE]
                   ELSE [@ EXCEPT !.m = "done", !.connClosed = TRUE, !.backend = "none",
                                  !.why = "dial"]]
    /\ UNCHANGED notRelay

\* the peers: the client sends or closes its side
ClientSend(c) ==
    /\ relay[c].client = "open"
    /\ ~relay[c].connClosed
    /\ relay[c].inC < MaxBuf
    /\ relay' = [relay EXCEPT ![c].inC = @ + 1]
    /\ UNCHANGED notRelay

\* what the proxy wrote and the client has not read is discarded with it
ClientClose(c) ==
    /\ relay[c].client = "open"
    /\ relay' = [relay EXCEPT ![c].client = "closed", ![c].outC = 0]
    /\ UNCHANGED notRelay

\* the peers: the client reads what the proxy wrote to it; a client that does
\* not read leaves it in the socket buffers, MaxBuf at most
ClientRecv(c) ==
    /\ relay[c].client = "open"
    /\ relay[c].outC > 0
    /\ relay' = [relay EXCEPT ![c].outC = @ - 1]
    /\ UNCHANGED notRelay

\* the peers: the backend sends or closes its side
BackendSend(c) ==
    /\ relay[c].backend = "open"
    /\ relay[c].dialed
    /\ ~relay[c].conn2Closed
    /\ relay[c].inB < MaxBuf
    /\ relay' = [relay EXCEPT ![c].inB = @ + 1]
    /\ UNCHANGED notRelay

BackendClose(c) ==
    /\ relay[c].backend = "open"
    /\ relay[c].dialed
    /\ relay' = [relay EXCEPT ![c].backend = "closed"]
    /\ UNCHANGED notRelay

\* lb.go:303, io.Copy(conn2, conn): Read on conn returns an error once the
\* proxy has closed conn, else the bytes in flight, else EOF once the client
\* has closed; otherwise it blocks
GRead(c) ==
    /\ relay[c].g = "read1"
    /\ \/ /\ relay[c].connClosed
          /\ relay' = [relay EXCEPT ![c].g = "done"]
       \/ /\ ~relay[c].connClosed
          /\ relay[c].inC > 0
          /\ relay' = [relay EXCEPT ![c].g = "write2", ![c].inC = @ - 1]
       \/ /\ ~relay[c].connClosed
          /\ relay[c].inC = 0
          /\ relay[c].client = "closed"
          /\ relay' = [relay EXCEPT ![c].g = "done"]
    /\ UNCHANGED notRelay

\* lb.go:303 and 342-348, io.Copy(conn2, conn): Write on conn2 fails once the
\* proxy has closed conn2, can fail once the backend has closed or when its
\* write deadline passes, else succeeds
GWrite(c) ==
    /\ relay[c].g = "write2"
    /\ \/ /\ relay[c].conn2Closed \/ relay[c].backend = "closed"
          /\ relay' = [relay EXCEPT ![c].g = "done"]
       \/ /\ ~relay[c].conn2Closed
          /\ relay' = [relay EXCEPT ![c].g = "done"]
       \/ /\ ~relay[c].conn2Closed
          /\ relay' = [relay EXCEPT ![c].g = "read1"]
    /\ UNCHANGED notRelay

\* lb.go:304 and 333-339, io.Copy(conn, conn2): Read on conn2 returns the
\* bytes in flight, else EOF once the backend has closed; otherwise it blocks
\* until the read deadline
MRead(c) ==
    /\ relay[c].m = "read2"
    /\ \/ /\ relay[c].inB > 0
          /\ relay' = [relay EXCEPT ![c].m = "write1", ![c].inB = @ - 1]
       \/ /\ relay[c].inB = 0
          /\ relay[c].backend = "closed"
          /\ relay' = [relay EXCEPT ![c].m = "ret", ![c].why = "backend_eof"]
    /\ UNCHANGED notRelay

\* lb.go:334, 393: the read deadline, idleTimeout after the Read began, passes
\* with nothing read from the backend
IdleTimeout(c) ==
    /\ relay[c].m = "read2"
    /\ relay[c].inB = 0
    /\ relay[c].backend = "open"
    /\ relay' = [relay EXCEPT ![c].m = "ret", ![c].why = "idle_timeout"]
    /\ UNCHANGED notRelay

\* lb.go:304, io.Copy(conn, conn2): Write on conn, the accepted connection,
\* which has no deadline: once the client has closed it fails or its bytes
\* are discarded; else it succeeds while the socket buffers towards the
\* client have room, and blocks otherwise
MWrite(c) ==
    /\ relay[c].m = "write1"
    /\ \/ /\ relay[c].client = "closed"
          /\ relay' = [relay EXCEPT ![c].m = "ret", ![c].why = "client_write"]
       \/ /\ relay[c].client = "closed"
          /\ relay' = [relay EXCEPT ![c].m = "read2"]
       \/ /\ relay[c].client = "open"
          /\ relay[c].outC < MaxBuf
          /\ relay' = [relay EXCEPT ![c].m = "read2", ![c].outC = @ + 1]
    /\ UNCHANGED notRelay

\* the mutant returns as soon as either copy has ended
MReturnEither(c) ==
    /\ relay[c].m = "ret" \/ (relay[c].g = "done" /\ relay[c].m \in {"read2", "write1"})
    /\ relay' = [relay EXCEPT ![c].m = "done", ![c].conn2Closed = TRUE,
                              ![c].connClosed = TRUE]
    /\ UNCHANGED notRelay

\* lb.go:304-306, 301, 292: io.Copy(conn, conn2) has returned; the deferred
\* conn2.Close() and conn.Close() run and proxyConnection returns
MReturn(c) ==
    /\ relay[c].m = "ret"
    /\ relay' = [relay EXCEPT ![c].m = "done", ![c].conn2Closed = TRUE,
                              ![c].connClosed = TRUE]
    /\ UNCHANGED notRelay

\* the steps the proxy takes by itself on connection c
ProxyStep(c) == GRead(c) \/ GWrite(c) \/ MRead(c) \/ MWrite(c) \/ MReturn(c)

RelayNext ==
    \/ \E c \in Relays, ok \in BOOLEAN : Dial(c, ok)
    \/ \E c \in Relays : ClientSend(c)
    \/ \E c \in Relays : ClientClose(c)
    \/ \E c \in Relays : ClientRecv(c)
    \/ \E c \in Relays : BackendSend(c)
    \/ \E c \in Relays : BackendClose(c)
    \/ \E c \in Relays : GRead(c)
    \/ \E c \in Relays : GWrite(c)
    \/ \E c \in Relays : MRead(c)
    \/ \E c \in Relays : IdleTimeout(c)
    \/ \E c \in Relays : MWrite(c)
    \/ \E c \in Relays : MReturn(c)

SpecRelay == RelayInit /\ [][RelayNext]_vars

(***************************************************************************)
(* Properties of the server.                                               *)
(***************************************************************************)
\* C4: however many callers invoke Stop, close(C) runs at most once and no
\* call of Stop ends the process on a redundant close (of the signal, or of
\* a listener that is already closed).
C4_ExactlyOnceStop ==
    /\ quit.closes <= 1
    /\ proc # "fatal_closed_listener"

\* C5: every connection accepted on a port is handled with the name of the
\* application that owns the port, and is dialed only to a target of that
\* application.
C5_ListenerIsolation ==
    \A c \in DOMAIN conns :
        LET own == PortOwner(conns[c].port)
        IN  /\ conns[c].app = own.Name
            /\ conns[c].target # "" => conns[c].target \in Range(own.Targets)

\* C5's case: accepts on the ports of both applications, both relaying
C5_Witness ==
    /\ Len(conns) = 2
    /\ conns[1].port # conns[2].port
    /\ \A c \in DOMAIN conns : conns[c].pc = "relay" /\ conns[c].dialed

\* C6: Stop does not return, and main does not exit, while a relay that
\* started before Stop was called is still copying.
C6_StopWaitsForRelays ==
    (proc = "exited" \/ \E s \in DOMAIN stop : stop[s].pc = "done") =>
        \A c \in DOMAIN conns : ~(conns[c].pc = "relay" /\ conns[c].early)

\* C6 amended: a Stop that returns has closed the signal and every listener
\* of the map; while it is closing, no relay holds it up (each Close of its
\* range can be taken at once); and main exits only after its Stop returned.
C6_StopDoesNotWait ==
    /\ \A s \in DOMAIN stop :
          stop[s].pc = "done" =>
              (quit.closed /\ lnOpen = {} /\ closeTried = DOMAIN listener)
    /\ \A s \in DOMAIN stop :
          (Running /\ stop[s].pc = "closing") =>
              \A k \in stop[s].left : ENABLED StopClose(s, k)
    /\ proc = "exited" => stop[1].pc = "done"

\* C6's case: Stop has returned and main has exited while a relay that began
\* before Stop was called is still copying
C6_Witness ==
    /\ proc = "exited"
    /\ stop[1].pc = "done"
    /\ \E c \in DOMAIN conns : conns[c].pc = "relay" /\ conns[c].early

\* C8: a port whose bind failed gets no entry in the listener map and no
\* accept loop, the other ports get theirs, and the failed port neither
\* crashes the process nor makes a later Stop fail.
C8_BindFailureIsolated ==
    /\ NilLn \notin DOMAIN listener
    /\ DOMAIN listener = AllPorts \ bindFail
    /\ served => \A k \in AllPorts \ bindFail : acc[k] # "none"
    /\ proc \notin {"panic_nil_listener", "fatal_nil_listener"}

\* C9, where every bind succeeded (no listener of the map is nil): a Close
\* that returns an error during Stop does not end Stop: the error is reported,
\* the remaining listeners are closed and Stop returns; once a Stop has
\* ended, Close has been attempted on every listener.
C9_BestEffortClose ==
    bindFail = {} =>
        /\ proc # "running" => (proc = "exited" /\ closeTried = DOMAIN listener)
        /\ (\E s \in DOMAIN stop : stop[s].pc = "done") =>
              closeTried = DOMAIN listener

NoneAliveIn(name) ==
    /\ Len(App(name).Targets) > 0
    /\ \A i \in DOMAIN serverPool[name].alive : ~serverPool[name].alive[i]

\* C11: when proxyConnection runs for a connection of an application none of
\* whose backends is alive, that step closes the connection without dialing
\* any address, leaves the accept loops, the listeners, the process and every
\* other connection as they were, and the closed connection is never handed
\* to proxyConnection again (no retry).
C11_NoLiveBackend ==
    [][ \A c \in DOMAIN conns :
          /\ (ProxyStart(c) /\ NoneAliveIn(conns[c].app)) =>
                /\ conns'[c].pc = "wait"
                /\ ~conns'[c].dialed
                /\ conns'[c].target = ""
                /\ conns'[c].runs = 1
                /\ \A d \in DOMAIN conns \ {c} : conns'[d] = conns[d]
                /\ acc' = acc /\ lnOpen' = lnOpen /\ proc' = proc
          /\ (conns[c].pc = "wait" /\ ~conns[c].dialed) =>
                conns'[c] = conns[c] ]_vars

\* C11's case: a connection closed for want of a live backend while the
\* accept loop of its port goes on and a connection of the other application
\* is relayed
C11_Witness ==
    \E c, d \in DOMAIN conns :
        /\ conns[c].pc = "wait" /\ conns[c].target = "" /\ ~conns[c].dialed
        /\ NoneAliveIn(conns[c].app)
        /\ acc[conns[c].port] = "run"
        /\ conns[d].app # conns[c].app /\ conns[d].pc = "relay"

\* C13: proxyConnection is invoked at most once for a connection, and only
\* by the first turn of handleConnection's loop (so there is one selection
\* and at most one dial); once the relay has finished or the dial has failed
\* the connection stays as it is: nothing is started on it again.
C13_OneRelayPerConnection ==
    [][ \A c \in DOMAIN conns :
          /\ conns'[c].runs <= 1
          /\ ProxyStart(c) => conns[c].runs = 1
          /\ conns[c].pc = "wait" => conns'[c] = conns[c] ]_vars

\* C13's case: one connection whose relay has finished and one whose dial
\* failed, each after a single run, in a process that goes on
C13_Witness ==
    /\ Running
    /\ \E c, d \in DOMAIN conns :
          /\ conns[c].pc = "wait" /\ conns[c].dialed /\ conns[c].runs = 1
          /\ conns[d].pc = "wait" /\ ~conns[d].dialed /\ conns[d].target # ""
          /\ conns[d].runs = 1

\* C14: an accept loop stops running only while the shutdown signal is
\* closed; a failed accept before Stop is called leaves the loop accepting
\* and the process running; no listener is closed before the signal is; and
\* once a call of Stop has returned no connection is accepted any more.
C14_AcceptLoopLifecycle ==
    [][ /\ \A k \in DOMAIN listener :
              /\ (acc[k] = "run" /\ (acc'[k] # "run" \/ proc' # "running")
                     /\ AcceptError(k)) => quit.closed
              /\ (AcceptError(k) /\ ~quit.closed) =>
                     (acc'[k] = "run" /\ proc' = "running")
              /\ (k \in lnOpen /\ k \notin lnOpen') => quit.closed
        /\ (\E s \in DOMAIN stop : stop[s].pc = "done") => Len(conns') = Len(conns)
      ]_vars

\* C16, where every bind succeeded: once Serve has run, Stop has closed every
\* listener, every accept loop has exited and no connection has a relay
\* under way or to come, the in-flight tracker is back at zero (a caller
\* waiting on it is released), however many connections were accepted before.
C16_TrackerDrains ==
    (/\ bindFail = {}
     /\ served
     /\ lnOpen = {}
     /\ \A k \in DOMAIN listener : acc[k] = "exit"
     /\ \A c \in DOMAIN conns : conns[c].pc = "wait") => listenerGroup = 0

(***************************************************************************)
(* Properties of the relay.                                                *)
(***************************************************************************)
BothClosed(c) == relay[c].connClosed /\ relay[c].conn2Closed

\* C7 as stated: once either copy direction of a relay has ended, the relay
\* terminates with both connections closed without waiting for a peer or a
\* timer: both are closed already, or the proxy has a step of its own to take.
C7_RelayEndsOnEitherDirection ==
    \A c \in Relays :
        (relay[c].dialed /\ (relay[c].g = "done" \/ relay[c].m \in {"ret", "done"})) =>
            (BothClosed(c) \/ ENABLED ProxyStep(c))

\* C7 amended: the relay terminates, closing both connections, exactly when
\* the backend->client copy has ended (backend EOF, idle timeout of the read
\* on the backend, or a failed write to the client). While that copy is
\* blocked on a backend that is open and silent, the end of the
\* client->backend copy closes nothing and leaves the proxy no step to take.
C7_RelayEndsWithBackendCopy ==
    \A c \in Relays :
        /\ relay[c].m = "ret" => ENABLED MReturn(c)
        /\ relay[c].m = "done" <=> relay[c].connClosed
        /\ relay[c].dialed => (relay[c].m = "done" <=> relay[c].conn2Closed)
        /\ (relay[c].dialed /\ relay[c].m = "done") =>
              relay[c].why \in {"backend_eof", "idle_timeout", "client_write"}
        /\ (relay[c].g = "done" /\ relay[c].m = "read2" /\ relay[c].inB = 0
              /\ relay[c].backend = "open") =>
              (~relay[c].connClosed /\ ~relay[c].conn2Closed /\ ~ENABLED ProxyStep(c))

\* C7's case: the client closed, the client->backend copy ended on its EOF,
\* and the relay ended only on the idle timeout of the silent backend
C7_Witness ==
    \E c \in Relays :
        /\ relay[c].client = "closed"
        /\ relay[c].g = "done"
        /\ relay[c].backend = "open"
        /\ relay[c].m = "done"
        /\ relay[c].why = "idle_timeout"
        /\ BothClosed(c)

\* C12: an established relay whose peers are both open and silent does not
\* stay open for ever: as long as the proxy has not closed both connections,
\* either it has a step of its own to take or the idle timeout of the
\* outbound connection is running and will end the relay.
C12_IdleTimeoutEnforced ==
    \A c \in Relays :
        (/\ relay[c].dialed /\ ~BothClosed(c)
         /\ relay[c].client = "open" /\ relay[c].backend = "open"
         /\ relay[c].inC = 0 /\ relay[c].inB = 0) =>
            (ENABLED ProxyStep(c) \/ ENABLED IdleTimeout(c))

(***************************************************************************)
(* Properties of the pool.                                                 *)
(***************************************************************************)
AllAlive == \A i \in Idx : alive[i]
AllReachable == \A i \in Idx : reach[i]
NoneAlive == \A i \in Idx : ~alive[i]
BeforeAt(k) == picks[k][1]
PeerAt(k) == picks[k][2]
LastPeer(ps) == ps[Len(ps)][2]

\* C1: in a pool of N >= 1 backends that are all alive, selections with no
\* liveness change between them start at the backend after the cursor, follow
\* the configured order, visit every backend exactly once in any N consecutive
\* calls, and the (N+1)th call returns the backend of the 1st.
C1_RoundRobinCoverage ==
    (bel >= 1 /\ AllAlive) =>
        /\ \A k \in 1 .. Len(picks) : PeerAt(k) = (BeforeAt(k) + 1) % bel
        /\ \A k \in 1 .. (Len(picks) - 1) : PeerAt(k + 1) = (PeerAt(k) + 1) % bel
        /\ \A k \in 1 .. (Len(picks) - bel + 1) :
              /\ {PeerAt(j) : j \in k .. (k + bel - 1)} = Idx
              /\ \A j1, j2 \in k .. (k + bel - 1) : PeerAt(j1) = PeerAt(j2) => j1 = j2
        /\ \A k \in 1 .. (Len(picks) - bel) : PeerAt(k + bel) = PeerAt(k)

\* C1's case: the largest pool, all alive, N+1 selections in a row that did not
\* begin at the cursor of a new pool
C1_Witness ==
    /\ bel = MaxBackends
    /\ AllAlive
    /\ Len(picks) = bel + 1
    /\ BeforeAt(1) > 0

\* C2 as stated: on a new pool of two targets, both alive, the first three
\* selections return T1, T2, T1 (indices 0, 1, 0).
C2_FreshOrderT1First ==
    (bel = 2 /\ fresh /\ AllAlive /\ AllReachable /\ Len(picks) >= 3) =>
        <<PeerAt(1), PeerAt(2), PeerAt(3)>> = <<0, 1, 0>>

\* C2 amended: the first selection on a new pool of N all-alive targets returns
\* the target at index 1 mod N; with two targets the first three selections
\* return T2, T1, T2 (indices 1, 0, 1).
C2_FreshOrderSecondFirst ==
    (bel >= 1 /\ fresh /\ AllAlive) =>
        /\ Len(picks) >= 1 => (BeforeAt(1) = 0 /\ PeerAt(1) = 1 % bel)
        /\ (bel = 2 /\ Len(picks) >= 3) =>
              <<PeerAt(1), PeerAt(2), PeerAt(3)>> = <<1, 0, 1>>

\* C2's case: three selections made on a new pool of two alive targets
C2_Witness ==
    /\ bel = 2
    /\ fresh
    /\ AllAlive
    /\ AllReachable
    /\ Len(picks) = 3

\* C3: with the flags fixed, a selection never returns a backend whose alive
\* flag is false, and while no backend is alive every selection returns nil.
C3_DeadBackendSkipping ==
    bel >= 1 =>
        /\ \A k \in 1 .. Len(picks) : PeerAt(k) # Nil => alive[PeerAt(k)]
        /\ NoneAlive => \A k \in 1 .. Len(picks) : PeerAt(k) = Nil

\* C3's case: a selection that found the backend at its start index dead and
\* returned a later one
C3_Witness ==
    /\ bel = MaxBackends
    /\ \E k \in 1 .. Len(picks) :
          /\ PeerAt(k) # Nil
          /\ PeerAt(k) # (BeforeAt(k) + 1) % bel
          /\ ~alive[(BeforeAt(k) + 1) % bel]

\* C10: once a backend has been unreachable for a whole health-check iteration
\* (downAge = 3) its alive flag is false, and every selection made while that
\* lasts returns another backend, an alive one whenever there is one.
C10_HealthAwareRouting ==
    [][ /\ \A i \in 0 .. (bel - 1) : downAge'[i] = 3 => ~alive'[i]
        /\ Select =>
              \A i \in Idx : downAge[i] = 3 =>
                  /\ LastPeer(picks') # i
                  /\ (\E j \in Idx : alive[j]) =>
                        (LastPeer(picks') # Nil /\ alive[LastPeer(picks')]) ]_vars

\* C10's case: targets [9001, 9002], 9001 confirmed down, and the three
\* selections made since then all returned 9002
C10_Witness ==
    /\ bel = 2
    /\ downAge[0] = 3
    /\ reach[1] /\ alive[1]
    /\ Len(picks) = 3
    /\ \A k \in 1 .. 3 : PeerAt(k) = 1

AliveSet == {i \in Idx : alive[i]}
\* how far idx lies after start, going round the pool
Ahead(start, idx) == (idx - start + bel) % bel
\* the alive backend nearest at or after start, going round the pool
NearestAlive(start) ==
    CHOOSE i \in AliveSet : \A j \in AliveSet : Ahead(start, i) <= Ahead(start, j)
\* the cursor the k-th remembered selection left behind
AfterAt(k) == IF k < Len(picks) THEN BeforeAt(k + 1) ELSE current

\* C17: with the flags fixed and some backend alive, each sequential call
\* returns the alive backend nearest at or after its start index
\* (cursor + 1) mod N; when that is not the start index the cursor is left
\* at the index returned; the next call starts right after the backend just
\* returned and returns the next alive one in configured order; and any |A|
\* consecutive calls return every alive backend exactly once.
C17_SkipAndAdvance ==
    (bel >= 1 /\ AliveSet # {}) =>
        /\ \A k \in 1 .. Len(picks) :
              LET start == (BeforeAt(k) + 1) % bel
              IN  /\ PeerAt(k) = NearestAlive(start)
                  /\ PeerAt(k) # start => AfterAt(k) = PeerAt(k)
                  /\ (AfterAt(k) + 1) % bel = (PeerAt(k) + 1) % bel
        /\ \A k \in 1 .. (Len(picks) - 1) :
              PeerAt(k + 1) = NearestAlive((PeerAt(k) + 1) % bel)
        /\ LET m == Cardinality(AliveSet)
           IN  \A k \in 1 .. (Len(picks) - m + 1) :
                  /\ {PeerAt(j) : j \in k .. (k + m - 1)} = AliveSet
                  /\ \A j1, j2 \in k .. (k + m - 1) :
                        PeerAt(j1) = PeerAt(j2) => j1 = j2

\* C17's case: the largest pool with one backend dead, and a full window of
\* selections of which one skipped the dead backend
C17_Witness ==
    /\ bel = MaxBackends
    /\ Cardinality(AliveSet) = bel - 1
    /\ Len(picks) = Window
    /\ \E k \in 1 .. Len(picks) : PeerAt(k) # (BeforeAt(k) + 1) % bel

\* C18: a selection on a pool of size 0 does not fault; it reports "no
\* backend available" like any selection on a pool without an alive backend.
C18_EmptyPoolReportsNil ==
    bel = 0 =>
        /\ ~poolPanic
        /\ \A k \in 1 .. Len(picks) : PeerAt(k) = Nil

\* C20: a backend's alive flag is true from the creation of the pool until
\* the health checker first probes it; no probe is made before the first
\* tick of the health-check timer; and a selection whose start index is a
\* backend not yet probed returns that backend, reachable or not.
C20_OptimisticInitialLiveness ==
    [][ /\ \A i \in 0 .. (bel - 1) : probed <= i => alive[i]
        /\ \A i \in 0 .. (bel - 1) : probed' <= i => alive'[i]
        /\ probed' = -1 => (hc' = -1 /\ alive' = alive)
        /\ Select =>
              LET start == (current + 1) % bel
              IN  probed <= start => LastPeer(picks') = start ]_vars

\* C20's case: before the first tick, the first selection of a new pool
\* returned a backend that is unreachable
C20_Witness ==
    /\ bel >= 1
    /\ probed = -1
    /\ fresh
    /\ Len(picks) = 1
    /\ ~reach[PeerAt(1)]
    /\ downAge[PeerAt(1)] = 1

(***************************************************************************)
(* Properties of concurrent selection.                                     *)
(***************************************************************************)
Scanning(a) == sel[a].pc \in {"scan", "store"}

\* C15: of the calls of GetNextPeer that are under way at the same time (each
\* past its NextIndex and not yet at its return), no two obtained the same
\* pre-advance cursor from NextIndex: each found the cursor further on than
\* the others did, whatever the liveness flags.
C15_CursorStrictlyAdvancing ==
    \A a, b \in DOMAIN sel :
        (a # b /\ Scanning(a) /\ Scanning(b)) => sel[a].pre # sel[b].pre

\* C19 as stated: a call racing the health checker returns nil only if at
\* some instant of the call every backend of the pool was not alive.
C19_NilOnlyIfAllDeadAtOnce ==
    \A a \in DOMAIN sel :
        (sel[a].pc = "ret" /\ sel[a].ret = Nil) => sel[a].allDead

\* C19 amended: a call racing the health checker returns nil only if no
\* backend was alive during the whole call: every backend was not alive at
\* some instant of the call, though not necessarily all at the same instant.
\* A call during which one and the same backend stays alive returns a backend.
C19_NilOnlyIfNoneSteadilyAlive ==
    \A a \in DOMAIN sel :
        /\ (sel[a].pc = "ret" /\ sel[a].ret = Nil) => sel[a].steady = {}
        /\ (sel[a].pc = "ret" /\ sel[a].steady # {}) => sel[a].ret \in Idx

\* C19's case: a call that returned nil although at every instant of it some
\* backend was alive
C19_Witness ==
    \E a \in DOMAIN sel :
        /\ sel[a].pc = "ret"
        /\ sel[a].ret = Nil
        /\ ~sel[a].allDead
        /\ sel[a].steady = {}

====
